---- MODULE Spec2Model ----
(***************************************************************************)
(* Model of linodego's error layer (errors.go): coupleAPIErrors, NewError, *)
(* APIError.Error, APIErrorReason.Error, Error.Error, ErrHasStatus and     *)
(* IsNotFound.  Strings are TLA+ strings, so every message is built the    *)
(* way the Go code builds it and can be compared literally.                *)
(***************************************************************************)
EXTENDS Integers, Sequences, FiniteSets, TLC

VARIABLES
    mode,    \* which entry point this behaviour exercises
    resp,    \* the *http.Response object (NilResp for a nil pointer)
    terr,    \* the transport error handed to coupleAPIErrors
    pre,     \* the response object as it was when coupleAPIErrors was last entered
    rets,    \* results of the successive coupleAPIErrors(resp, terr) calls
    rd,      \* what a caller reading resp.Body after the calls obtained
    x,       \* the value handed to NewError
    ns,      \* results of NewError(x), NewError(NewError(x))
    herr,    \* the error handed to ErrHasStatus / IsNotFound
    hcodes,  \* the variadic codes handed to ErrHasStatus
    hres     \* results of ErrHasStatus(herr, hcodes...) and IsNotFound(herr)

vars == <<mode, resp, terr, pre, rets, rd, x, ns, herr, hcodes, hres>>

---------------------------------------------------------------------------
(* Bounds of the model.                                                    *)
MaxReasons == 2      \* longest "errors" list in a body
MaxWrap == 2         \* deepest fmt.Errorf("...: %w") chain
MaxCodes == 2        \* most codes passed to ErrHasStatus
MaxCalls == 2        \* coupleAPIErrors calls on one response object

(* Program constants.                                                      *)
ErrorUnsupported == 0
ErrorFromString == 1
ErrorFromError == 2
ErrorFromStringer == 3
StatusBadGateway == 502
StatusNotFound == 404

---------------------------------------------------------------------------
(* Small helpers.                                                          *)
RECURSIVE SeqsUpTo(_, _)
SeqsUpTo(S, n) ==
    IF n = 0 THEN {<<>>}
    ELSE LET shorter == SeqsUpTo(S, n - 1)
         IN  shorter \cup {Append(s, e) : s \in {t \in shorter : Len(t) = n - 1}, e \in S}

Digit == <<"0", "1", "2", "3", "4", "5", "6", "7", "8", "9">>

RECURSIVE Itoa(_)
Itoa(n) == IF n < 10 THEN Digit[n + 1] ELSE Itoa(n \div 10) \o Digit[(n % 10) + 1]

\* fmt's %03d for a non-negative integer: zero-padded to width three.
Fmt03d(n) == IF n < 10 THEN "00" \o Itoa(n) ELSE IF n < 100 THEN "0" \o Itoa(n) ELSE Itoa(n)

\* strings.Join(elems, sep)
RECURSIVE Join(_, _)
Join(elems, sep) ==
    IF Len(elems) = 0 THEN ""
    ELSE IF Len(elems) = 1 THEN elems[1]
    ELSE elems[1] \o sep \o Join(Tail(elems), sep)

\* http.StatusText(code): the text of every status code net/http registers,
\* "" for any other code.
StatusText(code) ==
    CASE code = 100 -> "Continue"
      [] code = 101 -> "Switching Protocols"
      [] code = 102 -> "Processing"
      [] code = 103 -> "Early Hints"
      [] code = 200 -> "OK"
      [] code = 201 -> "Created"
      [] code = 202 -> "Accepted"
      [] code = 203 -> "Non-Authoritative Information"
      [] code = 204 -> "No Content"
      [] code = 205 -> "Reset Content"
      [] code = 206 -> "Partial Content"
      [] code = 207 -> "Multi-Status"
      [] code = 208 -> "Already Reported"
      [] code = 226 -> "IM Used"
      [] code = 300 -> "Multiple Choices"
      [] code = 301 -> "Moved Permanently"
      [] code = 302 -> "Found"
      [] code = 303 -> "See Other"
      [] code = 304 -> "Not Modified"
      [] code = 305 -> "Use Proxy"
      [] code = 307 -> "Temporary Redirect"
      [] code = 308 -> "Permanent Redirect"
      [] code = 400 -> "Bad Request"
      [] code = 401 -> "Unauthorized"
      [] code = 402 -> "Payment Required"
      [] code = 403 -> "Forbidden"
      [] code = 404 -> "Not Found"
      [] code = 405 -> "Method Not Allowed"
      [] code = 406 -> "Not Acceptable"
      [] code = 407 -> "Proxy Authentication Required"
      [] code = 408 -> "Request Timeout"
      [] code = 409 -> "Conflict"
      [] code = 410 -> "Gone"
      [] code = 411 -> "Length Required"
      [] code = 412 -> "Precondition Failed"
      [] code = 413 -> "Request Entity Too Large"
      [] code = 414 -> "Request URI Too Long"
      [] code = 415 -> "Unsupported Media Type"
      [] code = 416 -> "Requested Range Not Satisfiable"
      [] code = 417 -> "Expectation Failed"
      [] code = 418 -> "I'm a teapot"
      [] code = 421 -> "Misdirected Request"
      [] code = 422 -> "Unprocessable Entity"
      [] code = 423 -> "Locked"
      [] code = 424 -> "Failed Dependency"
      [] code = 425 -> "Too Early"
      [] code = 426 -> "Upgrade Required"
      [] code = 428 -> "Precondition Required"
      [] code = 429 -> "Too Many Requests"
      [] code = 431 -> "Request Header Fields Too Large"
      [] code = 451 -> "Unavailable For Legal Reasons"
      [] code = 500 -> "Internal Server Error"
      [] code = 501 -> "Not Implemented"
      [] code = 502 -> "Bad Gateway"
      [] code = 503 -> "Service Unavailable"
      [] code = 504 -> "Gateway Timeout"
      [] code = 505 -> "HTTP Version Not Supported"
      [] code = 506 -> "Variant Also Negotiates"
      [] code = 507 -> "Insufficient Storage"
      [] code = 508 -> "Loop Detected"
      [] code = 510 -> "Not Extended"
      [] code = 511 -> "Network Authentication Required"
      [] OTHER -> ""

---------------------------------------------------------------------------
(* APIErrorReason and APIError.                                            *)
\* func (r APIErrorReason) Error() string
APIErrorReason_Error(r) ==
    IF Len(r.Field) = 0 THEN r.Reason
    ELSE "[" \o r.Field \o "] " \o r.Reason

\* A different separator.
MutAPIErrorError(e) ==
    Join([i \in 1..Len(e.Errors) |-> APIErrorReason_Error(e.Errors[i])], ", ")

\* func (e APIError) Error() string
APIError_Error(e) ==
    Join([i \in 1..Len(e.Errors) |-> APIErrorReason_Error(e.Errors[i])], "; ")

---------------------------------------------------------------------------
(* Response bodies: an io.ReadCloser holding the bytes not yet read.       *)
NilBody == [kind |-> "nil", data |-> "", fail |-> FALSE]

\* bytes.NewBuffer(b) wrapped by io.NopCloser: a fresh stream over b.
NopCloserBuffer(b) == [kind |-> "stream", data |-> b, fail |-> FALSE]

\* A stream whose Read fails after delivering its data.
FailingStream(b) == [kind |-> "stream", data |-> b, fail |-> TRUE]

\* io.ReadAll(body): the bytes left in the stream, the read error ("" for none),
\* and the stream afterwards (drained).
ReadAll(body) ==
    [bytes |-> body.data,
     err   |-> IF body.fail THEN "unexpected EOF" ELSE "",
     rest  |-> [body EXCEPT !.data = ""]]

---------------------------------------------------------------------------
(* The wire format {"errors":[{"reason":...,"field":...},...]}.            *)
ReasonTexts == {"", "Entity ID is required"}
FieldNames == {"", "entity_ids"}
Reasons == [Reason : ReasonTexts, Field : FieldNames]
APIErrs == [Errors : SeqsUpTo(Reasons, MaxReasons)]

EncodeReason(r) ==
    IF r.Field = "" THEN "{\"reason\":\"" \o r.Reason \o "\"}"
    ELSE "{\"reason\":\"" \o r.Reason \o "\",\"field\":\"" \o r.Field \o "\"}"

EncodeAPIError(e) ==
    "{\"errors\":[" \o Join([i \in 1..Len(e.Errors) |-> EncodeReason(e.Errors[i])], ",") \o "]}"

StructuredBodies == {EncodeAPIError(e) : e \in APIErrs}
OtherBodies == {"", "{}", "<html>Bad Gateway</html>", "\"server overloaded\""}
BodyTexts == StructuredBodies \cup OtherBodies

\* Decoding a body into an APIError: fails on an unparseable body and on a
\* body without the "errors" key.
WireForms == {[raw |-> EncodeAPIError(e), apiError |-> e] : e \in APIErrs}

DecodeAPIError(raw) ==
    LET hits == {w \in WireForms : w.raw = raw}
    IN  IF hits = {} THEN [ok |-> FALSE, apiError |-> [Errors |-> <<>>]]
        ELSE [ok |-> TRUE, apiError |-> (CHOOSE w \in hits : TRUE).apiError]

\* getAPIError(resp): decodes resp.Body and leaves the body replayable.
getAPIError(r) ==
    IF r.Body.kind = "nil"
    THEN [ok |-> FALSE, apiError |-> [Errors |-> <<>>], Body |-> r.Body]
    ELSE LET got == ReadAll(r.Body)
             dec == DecodeAPIError(got.bytes)
         IN  IF got.err # ""
             THEN [ok |-> FALSE, apiError |-> [Errors |-> <<>>], Body |-> got.rest]
             ELSE [ok       |-> dec.ok,
                   apiError |-> dec.apiError,
                   Body     |-> NopCloserBuffer(got.bytes)]

---------------------------------------------------------------------------
(* Values of Go's `any` and `error` that reach this layer.                 *)
NoErr == [kind |-> "nil"]
NilResp == [kind |-> "nilresp"]

\* &Error{Code, Message, Response}; Response is "nil" or "resp" (the pointer
\* to the one response object of the behaviour).
MkError(code, msg, response) ==
    [kind |-> "Error", Code |-> code, Message |-> msg, Response |-> response]

\* errors.New(text) / fmt.Errorf(text) without %w
PlainErr(text) == [kind |-> "plain", text |-> text]

\* fmt.Errorf(text + ": %w", inner)
WrapErr(text, inner) == [kind |-> "wrap", text |-> text, inner |-> inner]

\* func (err Error) Error() string, and the Error() of the other error kinds.
RECURSIVE ErrorText(_)
ErrorText(e) ==
    CASE e.kind = "Error" -> "[" \o Fmt03d(e.Code) \o "] " \o e.Message
      [] e.kind = "plain" -> e.text
      [] e.kind = "wrap" -> e.text \o ": " \o ErrorText(e.inner)
      [] e.kind = "errstringer" -> e.text

ImplementsError(v) == v.kind \in {"Error", "plain", "wrap", "errstringer"}
ImplementsStringer(v) == v.kind \in {"stringer", "errstringer"}

\* func (err Error) StatusCode() int
StatusCode(e) == e.Code

---------------------------------------------------------------------------
(* NewError(err any) *Error.  v is the value, r the response object a      *)
(* *http.Response value points to.  The result is the returned pointer     *)
(* (NoErr for nil) and the response object afterwards.                     *)
NewErrorFromResponse(r) ==
    LET got == getAPIError(r)
    IN  IF ~got.ok
        THEN [err  |-> MkError(ErrorUnsupported, "Unexpected HTTP Error Response, no error", "nil"),
              resp |-> [r EXCEPT !.Body = got.Body]]
        ELSE [err  |-> MkError(r.StatusCode, APIError_Error(got.apiError), "resp"),
              resp |-> [r EXCEPT !.Body = got.Body]]

\* The *Error case lost: an already-canonical error is wrapped like any error.
MutNewErrorNoPassThrough(v, r) ==
    IF v.kind = "nil" THEN [err |-> NoErr, resp |-> r]
    ELSE IF v.kind = "response" THEN NewErrorFromResponse(r)
    ELSE IF ImplementsError(v)
         THEN [err |-> MkError(ErrorFromError, ErrorText(v), "nil"), resp |-> r]
    ELSE IF v.kind = "string"
         THEN [err |-> MkError(ErrorFromString, v.text, "nil"), resp |-> r]
    ELSE IF ImplementsStringer(v)
         THEN [err |-> MkError(ErrorFromStringer, v.str, "nil"), resp |-> r]
    ELSE [err  |-> MkError(ErrorUnsupported,
                           "Unsupported type to linodego.NewError: " \o v.type, "nil"),
          resp |-> r]

\* The fmt.Stringer case placed before the error case.
MutNewErrorStringerFirst(v, r) ==
    IF v.kind = "nil" THEN [err |-> NoErr, resp |-> r]
    ELSE IF v.kind = "Error" THEN [err |-> v, resp |-> r]
    ELSE IF v.kind = "response" THEN NewErrorFromResponse(r)
    ELSE IF ImplementsStringer(v)
         THEN [err |-> MkError(ErrorFromStringer, v.str, "nil"), resp |-> r]
    ELSE IF ImplementsError(v)
         THEN [err |-> MkError(ErrorFromError, ErrorText(v), "nil"), resp |-> r]
    ELSE IF v.kind = "string"
         THEN [err |-> MkError(ErrorFromString, v.text, "nil"), resp |-> r]
    ELSE [err  |-> MkError(ErrorUnsupported,
                           "Unsupported type to linodego.NewError: " \o v.type, "nil"),
          resp |-> r]

NewError(v, r) ==
    IF v.kind = "nil" THEN [err |-> NoErr, resp |-> r]
    ELSE IF v.kind = "Error" THEN [err |-> v, resp |-> r]
    ELSE IF v.kind = "response" THEN NewErrorFromResponse(r)
    ELSE IF ImplementsError(v)
         THEN [err |-> MkError(ErrorFromError, ErrorText(v), "nil"), resp |-> r]
    ELSE IF v.kind = "string"
         THEN [err |-> MkError(ErrorFromString, v.text, "nil"), resp |-> r]
    ELSE IF ImplementsStringer(v)
         THEN [err |-> MkError(ErrorFromStringer, v.str, "nil"), resp |-> r]
    ELSE [err  |-> MkError(ErrorUnsupported,
                           "Unsupported type to linodego.NewError: " \o v.type, "nil"),
          resp |-> r]

---------------------------------------------------------------------------
(* coupleAPIErrors(resp, err).  The result is the returned pair (resp is   *)
(* "resp" when the response pointer is returned, "nil" otherwise) and the  *)
(* response object afterwards.                                             *)
ExpectedContentType(r) ==
    IF r.Request.kind = "hdr" THEN r.Request.Accept ELSE ""

\* The diagnostic reduced to the raw body.
MutMismatchMessage(expected, received, body) == body

MismatchMessage(expected, received, body) ==
    "Unexpected Content-Type: Expected: " \o expected
        \o ", Received: " \o received
        \o "\nResponse body: " \o body

\* The body is read but no fresh stream is put back.
MutCoupleMismatchNoRestore(r) ==
    IF r.Body.kind = "nil"
    THEN [resp |-> "nil", err |-> NewError(PlainErr("response body is nil"), r).err, after |-> r]
    ELSE LET got == ReadAll(r.Body)
         IN  IF got.err # ""
             THEN [resp  |-> "nil",
                   err   |-> NewError(WrapErr("failed to read response body", PlainErr(got.err)), r).err,
                   after |-> [r EXCEPT !.Body = got.rest]]
             ELSE [resp  |-> "nil",
                   err   |-> MkError(r.StatusCode,
                                     MismatchMessage(ExpectedContentType(r), r.ContentType, got.bytes),
                                     "nil"),
                   after |-> [r EXCEPT !.Body = got.rest]]

coupleMismatch(r) ==
    IF r.Body.kind = "nil"
    THEN [resp |-> "nil", err |-> NewError(PlainErr("response body is nil"), r).err, after |-> r]
    ELSE LET got == ReadAll(r.Body)
         IN  IF got.err # ""
             THEN [resp  |-> "nil",
                   err   |-> NewError(WrapErr("failed to read response body", PlainErr(got.err)), r).err,
                   after |-> [r EXCEPT !.Body = got.rest]]
             ELSE [resp  |-> "nil",
                   err   |-> MkError(r.StatusCode,
                                     MismatchMessage(ExpectedContentType(r), r.ContentType, got.bytes),
                                     "nil"),
                   after |-> [r EXCEPT !.Body = NopCloserBuffer(got.bytes)]]

\* The empty-list check lost: every decoded body is reported as an error.
MutCoupleDecodeNoEmptyCheck(r) ==
    LET got == getAPIError(r)
        r1  == [r EXCEPT !.Body = got.Body]
    IN  IF ~got.ok
        THEN [resp  |-> "nil",
              err   |-> NewError(PlainErr("failed to decode response body: %!w(<nil>)"), r1).err,
              after |-> r1]
        ELSE LET n == NewError([kind |-> "response"], r1)
             IN  [resp |-> "nil", err |-> n.err, after |-> n.resp]

coupleDecode(r) ==
    LET got == getAPIError(r)
        r1  == [r EXCEPT !.Body = got.Body]
    IN  IF ~got.ok
        THEN [resp  |-> "nil",
              err   |-> NewError(PlainErr("failed to decode response body: %!w(<nil>)"), r1).err,
              after |-> r1]
        ELSE IF Len(got.apiError.Errors) = 0
        THEN [resp |-> "resp", err |-> NoErr, after |-> r1]
        ELSE LET n == NewError([kind |-> "response"], r1)
             IN  [resp |-> "nil", err |-> n.err, after |-> n.resp]

\* Off by one at the lower end of the success range.
MutIsFailureStatus(code) == code <= 200 \/ code >= 300

\* resp.StatusCode < 200 || resp.StatusCode >= 300
IsFailureStatus(code) == code < 200 \/ code >= 300

\* The gateway page recognised only as a case of content-type mismatch.
MutGatewayErrorPage(r) ==
    /\ r.StatusCode = StatusBadGateway
    /\ r.ContentType = "text/html"
    /\ r.ContentType # ExpectedContentType(r)

\* resp.StatusCode == http.StatusBadGateway && responseContentType == "text/html"
GatewayErrorPage(r) == r.StatusCode = StatusBadGateway /\ r.ContentType = "text/html"

coupleAPIErrors(r, err) ==
    IF err # NoErr
    THEN [resp |-> "nil", err |-> NewError(err, r).err, after |-> r]
    ELSE IF r = NilResp
    THEN [resp |-> "nil", err |-> NewError(PlainErr("response is nil"), r).err, after |-> r]
    ELSE IF IsFailureStatus(r.StatusCode)
    THEN IF GatewayErrorPage(r)
         THEN [resp  |-> "nil",
               err   |-> MkError(StatusBadGateway, StatusText(StatusBadGateway), "resp"),
               after |-> r]
         ELSE IF r.ContentType # ExpectedContentType(r)
         THEN coupleMismatch(r)
         ELSE coupleDecode(r)
    ELSE [resp |-> "resp", err |-> NoErr, after |-> r]

---------------------------------------------------------------------------
(* errors.As(err, &e) with e *Error: the first *Error on err's Unwrap      *)
(* chain, NoErr when there is none.                                        *)
RECURSIVE AsError(_)
AsError(err) ==
    CASE err.kind = "Error" -> err
      [] err.kind = "wrap" -> AsError(err.inner)
      [] OTHER -> NoErr

\* Only the first of the codes is compared.
MutErrHasStatusFirstOnly(err, code) ==
    IF err = NoErr THEN FALSE
    ELSE IF Len(code) = 0 THEN FALSE
    ELSE LET e == AsError(err)
         IN  IF e = NoErr THEN FALSE
             ELSE StatusCode(e) = code[1]

\* func ErrHasStatus(err error, code ...int) bool
ErrHasStatus(err, code) ==
    IF err = NoErr THEN FALSE
    ELSE IF Len(code) = 0 THEN FALSE
    ELSE LET e == AsError(err)
         IN  IF e = NoErr THEN FALSE
             ELSE \E i \in 1..Len(code) : StatusCode(e) = code[i]

\* func IsNotFound(err error) bool
IsNotFound(err) == ErrHasStatus(err, <<StatusNotFound>>)

---------------------------------------------------------------------------
(* Inputs.                                                                 *)
StatusCodes == {199, 200, 299, 300, 400, 404, 500, 502}
ContentTypes == {"", "application/json", "text/html", "text/plain"}

\* resp.Request: a nil request, a request with a nil Header, or a request
\* whose Header.Get("Accept") is Accept ("" when the header is not set).
Requests ==
    {[kind |-> "nil", Accept |-> ""], [kind |-> "nohdr", Accept |-> ""]}
        \cup [kind : {"hdr"}, Accept : ContentTypes]

Bodies == {NilBody, FailingStream("")} \cup {NopCloserBuffer(b) : b \in BodyTexts}

Responses ==
    [kind : {"resp"}, StatusCode : StatusCodes, ContentType : ContentTypes,
     Request : Requests, Body : Bodies]

CanonicalErrs ==
    {MkError(404, "Not found", "nil"), MkError(502, "Bad Gateway", "nil"),
     MkError(ErrorFromString, "disk full", "nil")}

RECURSIVE WrapUpTo(_, _)
WrapUpTo(base, n) ==
    IF n = 0 THEN base
    ELSE LET inner == WrapUpTo(base, n - 1)
         IN  inner \cup {WrapErr("request failed", e) : e \in inner}

\* Non-nil values of type error.
Errs ==
    WrapUpTo(CanonicalErrs \cup {PlainErr("connection refused"), PlainErr("")}, MaxWrap)
        \cup {[kind |-> "errstringer", text |-> t, str |-> "Timeout(30s)"] : t \in {"", "timeout"}}

\* Non-nil values of type any that are neither an error nor a response.
PlainValues ==
    {[kind |-> "string", text |-> t] : t \in {"", "disk full"}}
        \cup {[kind |-> "stringer", str |-> t] : t \in {"", "state: down"}}
        \cup {[kind |-> "other", type |-> t] : t \in {"int", "struct {}"}}

\* The transport errors handed to coupleAPIErrors (NoErr: none).
TransportErrs ==
    {NoErr,
     MkError(404, "Not found", "nil"),
     PlainErr("connection refused"),
     PlainErr(""),
     WrapErr("request failed", MkError(404, "Not found", "nil")),
     [kind |-> "errstringer", text |-> "timeout", str |-> "Timeout(30s)"]}

Codes == {ErrorUnsupported, ErrorFromError, StatusNotFound, StatusBadGateway}

NotRead == [bytes |-> "", err |-> "", done |-> FALSE]

---------------------------------------------------------------------------
(* The state machine: one behaviour exercises one entry point on inputs    *)
(* drawn in Init.                                                          *)
InitClassify ==
    /\ mode = "classify"
    /\ resp \in Responses \cup {NilResp}
    /\ terr \in TransportErrs
    /\ x = NoErr /\ herr = NoErr /\ hcodes = <<>>

InitNormalize ==
    /\ mode = "normalize"
    /\ \/ x = [kind |-> "response"] /\ resp \in Responses
       \/ x \in Errs \cup PlainValues \cup {NoErr} /\ resp = NilResp
    /\ terr = NoErr /\ herr = NoErr /\ hcodes = <<>>

InitMatch ==
    /\ mode = "match"
    /\ herr \in Errs \cup {NoErr}
    /\ hcodes \in SeqsUpTo(Codes, MaxCodes)
    /\ resp = NilResp /\ terr = NoErr /\ x = NoErr

Init ==
    /\ InitClassify \/ InitNormalize \/ InitMatch
    /\ pre = <<>> /\ rets = <<>> /\ rd = NotRead
    /\ ns = <<>>
    /\ hres = [has |-> <<>>, nf |-> <<>>]

\* The transport layer calls coupleAPIErrors(resp, terr).
Classify ==
    /\ mode = "classify"
    /\ Len(rets) < MaxCalls
    /\ ~rd.done
    /\ LET c == coupleAPIErrors(resp, terr)
       IN  /\ rets' = Append(rets, [resp |-> c.resp, err |-> c.err])
           /\ resp' = c.after
    /\ pre' = Append(pre, resp)
    /\ UNCHANGED <<mode, terr, rd, x, ns, herr, hcodes, hres>>

\* A caller reads the response body after classification.
ReadBody ==
    /\ mode = "classify"
    /\ Len(rets) >= 1
    /\ ~rd.done
    /\ resp # NilResp
    /\ resp.Body.kind # "nil"
    /\ LET got == ReadAll(resp.Body)
       IN  /\ rd' = [bytes |-> got.bytes, err |-> got.err, done |-> TRUE]
           /\ resp' = [resp EXCEPT !.Body = got.rest]
    /\ UNCHANGED <<mode, terr, pre, rets, x, ns, herr, hcodes, hres>>

\* NewError(x)
Normalize ==
    /\ mode = "normalize"
    /\ Len(ns) = 0
    /\ LET n == NewError(x, resp)
       IN  /\ ns' = <<n.err>>
           /\ resp' = n.resp
    /\ UNCHANGED <<mode, terr, pre, rets, rd, x, herr, hcodes, hres>>

\* NewError(NewError(x)), for a non-nil first result.
NormalizeAgain ==
    /\ mode = "normalize"
    /\ Len(ns) = 1
    /\ ns[1] # NoErr
    /\ LET n == NewError(ns[1], resp)
       IN  /\ ns' = Append(ns, n.err)
           /\ resp' = n.resp
    /\ UNCHANGED <<mode, terr, pre, rets, rd, x, herr, hcodes, hres>>

\* ErrHasStatus(herr, hcodes...)
HasStatus ==
    /\ mode = "match"
    /\ hres.has = <<>>
    /\ hres' = [hres EXCEPT !.has = <<ErrHasStatus(herr, hcodes)>>]
    /\ UNCHANGED <<mode, resp, terr, pre, rets, rd, x, ns, herr, hcodes>>

\* IsNotFound(herr)
NotFound ==
    /\ mode = "match"
    /\ hres.nf = <<>>
    /\ hres' = [hres EXCEPT !.nf = <<IsNotFound(herr)>>]
    /\ UNCHANGED <<mode, resp, terr, pre, rets, rd, x, ns, herr, hcodes>>

Next == Classify \/ ReadBody \/ Normalize \/ NormalizeAgain \/ HasStatus \/ NotFound

Spec == Init /\ [][Next]_vars

---------------------------------------------------------------------------
(* Vocabulary of the properties.                                           *)
Calls == 1..Len(rets)

\* The response object as call i left it (defined while nobody has read the
\* body since, or a later call recorded it).
AfterKnown(i) == i < Len(rets) \/ ~rd.done
After(i) == IF i < Len(rets) THEN pre[i + 1] ELSE resp

Is2xx(r) == r.StatusCode >= 200 /\ r.StatusCode < 300
Readable(r) == r # NilResp /\ r.Body.kind = "stream" /\ ~r.Body.fail

\* The structured errors a readable body decodes to (at most one): those
\* whose wire form is the body's text.
Decoded(r) ==
    IF Readable(r) THEN {w.apiError : w \in {v \in WireForms : v.raw = r.Body.data}}
    ELSE {}

Rendered(reason) ==
    IF reason.Field # "" THEN "[" \o reason.Field \o "] " \o reason.Reason
    ELSE reason.Reason

JoinedReasons(e) == Join([k \in 1..Len(e.Errors) |-> Rendered(e.Errors[k])], "; ")

\* Non-2xx response, no transport error, Content-Type equal to Accept.
StructuredCase(r) ==
    /\ terr = NoErr
    /\ r # NilResp
    /\ ~Is2xx(r)
    /\ r.ContentType = ExpectedContentType(r)

HtmlGateway(r) == r.StatusCode = 502 /\ r.ContentType = "text/html"

Success == [resp |-> "resp", err |-> NoErr]

---------------------------------------------------------------------------
\* C1 (as stated): for every non-2xx response with no transport error, whose
\* Content-Type equals the request's Accept and whose body decodes to a
\* structured error with at least one reason, coupleAPIErrors returns an
\* error with Code = status code and Message = the rendered reasons joined
\* by "; ".
C1_AsStated ==
    \A i \in Calls : \A e \in Decoded(pre[i]) :
        (StructuredCase(pre[i]) /\ Len(e.Errors) >= 1)
            => /\ rets[i].err.kind = "Error"
               /\ rets[i].err.Code = pre[i].StatusCode
               /\ rets[i].err.Message = JoinedReasons(e)

\* C1 (amended): the same, for every such response other than a 502 whose
\* Content-Type is "text/html" (which is answered "Bad Gateway" first).
C1_StructuredError ==
    \A i \in Calls : \A e \in Decoded(pre[i]) :
        (StructuredCase(pre[i]) /\ ~HtmlGateway(pre[i]) /\ Len(e.Errors) >= 1)
            => /\ rets[i].resp = "nil"
               /\ rets[i].err.kind = "Error"
               /\ rets[i].err.Code = pre[i].StatusCode
               /\ rets[i].err.Message = JoinedReasons(e)

C1_Witness ==
    /\ Len(rets) >= 1
    /\ StructuredCase(pre[1]) /\ ~HtmlGateway(pre[1])
    /\ \E e \in Decoded(pre[1]) :
          /\ Len(e.Errors) = 2
          /\ e.Errors[1].Field # "" /\ e.Errors[2].Field = ""
    /\ rets[1].err.kind = "Error"
    /\ rets[1].err.Message = "[entity_ids] Entity ID is required; Entity ID is required"

\* C2 (as stated): a non-2xx response whose body decodes to zero reasons,
\* with Content-Type equal to Accept, is returned as (response, nil), by the
\* first classification and by the second one of the same object.
C2_AsStated ==
    (/\ Len(rets) >= 1
     /\ StructuredCase(pre[1])
     /\ \E e \in Decoded(pre[1]) : Len(e.Errors) = 0)
        => \A i \in Calls : rets[i] = Success

\* C2 (amended): the same, for every such response other than a 502 whose
\* Content-Type is "text/html".
C2_EmptyListIsSuccess ==
    (/\ Len(rets) >= 1
     /\ StructuredCase(pre[1]) /\ ~HtmlGateway(pre[1])
     /\ \E e \in Decoded(pre[1]) : Len(e.Errors) = 0)
        => \A i \in Calls : rets[i] = Success

C2_Witness ==
    /\ Len(rets) = 2
    /\ StructuredCase(pre[1]) /\ ~HtmlGateway(pre[1])
    /\ \E e \in Decoded(pre[1]) : Len(e.Errors) = 0
    /\ rets[1] = Success /\ rets[2] = Success

\* C3: a non-nil response with status in [200,300) and no transport error
\* is returned as (response, nil) whatever its body and headers are, and the
\* response object, body stream included, is left as it was.
C3_SuccessRange ==
    \A i \in Calls :
        (terr = NoErr /\ pre[i] # NilResp /\ Is2xx(pre[i]))
            => /\ rets[i] = Success
               /\ AfterKnown(i) => After(i) = pre[i]

C3_Witness ==
    /\ Len(rets) >= 1 /\ terr = NoErr /\ pre[1] # NilResp
    /\ pre[1].StatusCode = 299
    /\ pre[1].ContentType # ExpectedContentType(pre[1])
    /\ \E e \in Decoded(pre[1]) : Len(e.Errors) >= 1
    /\ rets[1] = Success

\* C4: with a non-nil transport error coupleAPIErrors returns
\* (nil, NewError(transportErr)) whatever the response is and leaves the
\* response untouched; the error is the transport error itself when that is
\* a *Error, otherwise Code = ErrorFromError and Message = its description.
C4_TransportError ==
    \A i \in Calls :
        terr # NoErr
            => /\ rets[i].resp = "nil"
               /\ rets[i].err =
                     IF terr.kind = "Error" THEN terr
                     ELSE [kind |-> "Error", Code |-> 2,
                           Message |-> ErrorText(terr), Response |-> "nil"]
               /\ AfterKnown(i) => After(i) = pre[i]

C4_Witness ==
    /\ Len(rets) >= 1
    /\ terr = WrapErr("request failed", MkError(404, "Not found", "nil"))
    /\ pre[1] # NilResp /\ Is2xx(pre[1]) /\ Readable(pre[1])
    /\ rets[1].err.Code = 2
    /\ rets[1].err.Message = "request failed: [404] Not found"

\* C5: a 502 response with Content-Type "text/html" and no transport error
\* yields Code 502 and Message "Bad Gateway" for every Accept value, ahead
\* of the mismatch and decode paths, and the body is never read.
C5_BadGateway ==
    \A i \in Calls :
        (terr = NoErr /\ pre[i] # NilResp /\ HtmlGateway(pre[i]))
            => /\ rets[i].resp = "nil"
               /\ rets[i].err.kind = "Error"
               /\ rets[i].err.Code = 502
               /\ rets[i].err.Message = "Bad Gateway"
               /\ AfterKnown(i) => After(i) = pre[i]

C5_Witness ==
    /\ Len(rets) >= 1 /\ terr = NoErr /\ pre[1] # NilResp /\ HtmlGateway(pre[1])
    /\ pre[1].Request.kind = "hdr" /\ pre[1].Request.Accept = "text/html"
    /\ \E e \in Decoded(pre[1]) : Len(e.Errors) = 0
    /\ rets[1].err.kind = "Error" /\ rets[1].err.Message = "Bad Gateway"

\* C6: a non-2xx response (other than 502 with text/html) whose Content-Type
\* differs from the request's Accept ("" without request or header) and whose
\* body is readable yields an error with Code = status code and a Message
\* made of the expected type, the received type and the raw body; afterwards
\* the body stream holds the original bytes again and the next reader gets
\* exactly them.
MismatchCase(r) ==
    /\ terr = NoErr
    /\ r # NilResp
    /\ ~Is2xx(r)
    /\ ~HtmlGateway(r)
    /\ r.ContentType # (IF r.Request.kind = "hdr" THEN r.Request.Accept ELSE "")
    /\ Readable(r)

C6_MismatchKeepsBody ==
    \A i \in Calls :
        MismatchCase(pre[i])
            => /\ rets[i].resp = "nil"
               /\ rets[i].err.kind = "Error"
               /\ rets[i].err.Code = pre[i].StatusCode
               /\ rets[i].err.Message =
                     "Unexpected Content-Type: Expected: "
                        \o (IF pre[i].Request.kind = "hdr" THEN pre[i].Request.Accept ELSE "")
                        \o ", Received: " \o pre[i].ContentType
                        \o "\nResponse body: " \o pre[i].Body.data
               /\ AfterKnown(i)
                     => Readable(After(i)) /\ After(i).Body.data = pre[i].Body.data
               /\ (i = Len(rets) /\ rd.done)
                     => rd.err = "" /\ rd.bytes = pre[i].Body.data

C6_Witness ==
    /\ Len(rets) >= 1 /\ rd.done
    /\ MismatchCase(pre[Len(rets)])
    /\ pre[1].Request.kind = "hdr" /\ pre[1].Request.Accept = "application/json"
    /\ pre[1].ContentType = "text/plain"
    /\ pre[1].Body.data = "\"server overloaded\""
    /\ rd.bytes = "\"server overloaded\""
    /\ rets[1].err.Message =
          "Unexpected Content-Type: Expected: application/json, Received: text/plain\nResponse body: \"server overloaded\""

\* C7: NewError(NewError(x)) equals NewError(x) in Code, Message and
\* Response for every non-nil x.
C7_Idempotent ==
    (mode = "normalize" /\ x # NoErr /\ Len(ns) = 2) => ns[2] = ns[1]

C7_Witness ==
    /\ Len(ns) = 2
    /\ x.kind = "wrap" /\ x.inner.kind = "Error"
    /\ ns[1].Code = 2 /\ ns[2].Code = 2
    /\ ns[2].Message = "request failed: [404] Not found"

\* C8: NewError dispatches in the order nil, *Error, response, error, string,
\* stringer, other: nil gives nil; an error that is also a stringer gives
\* Code 2 with its error description; a string gives Code 1 with the string;
\* a stringer that is no error gives Code 3; anything else gives Code 0.
C8_Dispatch ==
    (mode = "normalize" /\ Len(ns) >= 1)
        => /\ x = NoErr => ns[1] = NoErr
           /\ x.kind = "Error" => ns[1] = x
           /\ x.kind \in {"plain", "wrap"} => ns[1].Code = 2
           /\ x.kind = "errstringer"
                 => ns[1].Code = 2 /\ ns[1].Message = x.text /\ ns[1].Code # 3
           /\ x.kind = "string" => ns[1].Code = 1 /\ ns[1].Message = x.text
           /\ x.kind = "stringer" => ns[1].Code = 3 /\ ns[1].Message = x.str
           /\ x.kind = "other" => ns[1].Code = 0
           /\ x.kind = "response" => ns[1].Code \in {0, resp.StatusCode}

C8_Witness ==
    /\ Len(ns) >= 1
    /\ x.kind = "errstringer" /\ x.text = "timeout"
    /\ ns[1].Code = 2 /\ ns[1].Message = "timeout"

\* C9: ErrHasStatus is false for a nil err, for zero codes, and for an err
\* with no *Error on its wrapping chain; otherwise it is true exactly when
\* the *Error's Code is one of the codes.  IsNotFound(err) is
\* ErrHasStatus(err, 404).
OnChain(err) ==
    LET RECURSIVE chain(_)
        chain(e) == IF e.kind = "wrap" THEN {e} \cup chain(e.inner) ELSE {e}
    IN  chain(err)

CanonicalOf(err) == {e \in OnChain(err) : e.kind = "Error"}
CodesGiven == {hcodes[k] : k \in 1..Len(hcodes)}

C9_HasStatus ==
    /\ hres.has # <<>>
          => hres.has[1] =
                (/\ herr # NoErr
                 /\ Len(hcodes) > 0
                 /\ \E e \in CanonicalOf(herr) : e.Code \in CodesGiven)
    /\ hres.nf # <<>>
          => hres.nf[1] = (herr # NoErr /\ \E e \in CanonicalOf(herr) : e.Code = 404)
    /\ (hres.has # <<>> /\ hres.nf # <<>> /\ hcodes = <<404>>)
          => hres.has[1] = hres.nf[1]

C9_Witness ==
    /\ hres.has = <<TRUE>> /\ hres.nf = <<TRUE>>
    /\ herr.kind = "wrap"
    /\ hcodes = <<0, 404>>

\* C10 (as stated): every canonical error returned by NewError or
\* coupleAPIErrors has a Code that is a sentinel 0..3 or an HTTP status code,
\* and a Message that is not empty.
Returned ==
    {ns[k] : k \in 1..Len(ns)} \cup {rets[k].err : k \in 1..Len(rets)}

C10_AsStated ==
    \A e \in Returned :
        e # NoErr => /\ e.Code \in (0..3) \cup (100..599)
                     /\ e.Message # ""

\* C10 (amended): an already-canonical input is returned as it is; every
\* other canonical error returned has a Code that is a sentinel 0..3 or the
\* response's status code, and its Message is empty only when the text it
\* copies is empty: an empty string, an error or stringer with an empty
\* description, or a response whose decoded reasons render to "".
EmptyRendering(r) == \E e \in Decoded(r) : JoinedReasons(e) = ""

EmptySource(v, r) ==
    \/ v.kind = "string" /\ v.text = ""
    \/ v.kind = "stringer" /\ v.str = ""
    \/ v.kind \in {"plain", "wrap", "errstringer"} /\ ErrorText(v) = ""
    \/ v.kind = "response" /\ EmptyRendering(r)

StatusOf(r) == IF r = NilResp THEN {} ELSE {r.StatusCode}

C10_CodeAndMessage ==
    /\ (mode = "normalize" /\ Len(ns) >= 1 /\ x # NoErr)
          => IF x.kind = "Error" THEN ns[1] = x
             ELSE /\ ns[1].kind = "Error"
                  /\ ns[1].Code \in (0..3) \cup StatusOf(resp)
                  /\ ns[1].Message = "" => EmptySource(x, resp)
    /\ \A i \in Calls :
          rets[i].err # NoErr
             => IF terr.kind = "Error" THEN rets[i].err = terr
                ELSE /\ rets[i].err.kind = "Error"
                     /\ rets[i].err.Code \in (0..3) \cup StatusOf(pre[i])
                     /\ rets[i].err.Message = ""
                           => \/ terr # NoErr /\ EmptySource(terr, pre[i])
                              \/ /\ StructuredCase(pre[i])
                                 /\ EmptyRendering(pre[i])

C10_Witness ==
    /\ Len(rets) >= 1
    /\ terr = NoErr /\ pre[1] # NilResp
    /\ ~Is2xx(pre[1]) /\ ~HtmlGateway(pre[1])
    /\ pre[1].ContentType # ExpectedContentType(pre[1])
    /\ Readable(pre[1]) /\ pre[1].Body.data = ""
    /\ rets[1].err.kind = "Error"
    /\ rets[1].err.Code = pre[1].StatusCode
    /\ rets[1].err.Message # ""

====
